---- MODULE Spec2Model ----
(***************************************************************************)
(* The `oras manifest delete` command (cmd/oras/root/manifest/delete.go):  *)
(* pre-run validation of the flags, then deleteManifest: repository        *)
(* creation, scope hints, Resolve, confirmation, Delete and the report.    *)
(* The registry is a set of manifests that persists from one invocation    *)
(* of the command to the next.                                             *)
(*                                                                         *)
(* Texts (error messages, printed lines) are sequences of words, so that   *)
(* "the message contains ..." is a statement about a subsequence.          *)
(*                                                                         *)
(* The push options (pkg/oras/push_opts.go) are modelled next to it, each  *)
(* part under a specification of its own: SpecPath for ValidateNameAsPath, *)
(* SpecTrack for the status tracker called by concurrent workers, SpecOpts *)
(* for the options applied to pushOptsDefaults. The variables of the parts *)
(* a specification does not run stay idle.                                 *)
(***************************************************************************)
EXTENDS Integers, Sequences, FiniteSets, TLC

VARIABLES
    invocation,  \* number of the current invocation of the command
    args,        \* the command's positional arguments (cobra.ExactArgs(1))
    opts,        \* deleteOptions: Force, OutputDescriptor, ReferrersAPI, targetRef
    pc,          \* the position of the invocation
    repo,        \* the repository NewRepository returned
    hints,       \* the local slice `hints` of deleteManifest
    ctx,         \* the operation context (its registered scope hints)
    desc,        \* the descriptor Resolve returned
    prompt,      \* the confirmation prompt deleteManifest built
    calls,       \* the calls issued so far by this invocation, in order
    stdout,      \* the lines written to standard output by this invocation
    ret,         \* the error the command returned (meaningful when pc = "done")
    store,       \* the registry: digests of the manifests it holds
    store0       \* the registry as it was when this invocation started

deleteVars == <<invocation, args, opts, pc, repo, hints, ctx, desc, prompt,
                calls, stdout, ret, store, store0>>

VARIABLES
    vdesc,       \* ValidateNameAsPath: the descriptor it is called with
    vpc,         \* ValidateNameAsPath: "call" or "returned"
    verr         \* ValidateNameAsPath: the error it returned

pathVars == <<vdesc, vpc, verr>>

VARIABLES
    tdesc,       \* status tracker: the descriptor of each worker's invocation
    tpc,         \* status tracker: where each worker is in the handler
    printLock,   \* status tracker: the holder of printLock, 0 when free
    sink,        \* status tracker: what the writer has received, piece by piece
    tret         \* status tracker: what each invocation returned

trackVars == <<tdesc, tpc, printLock, sink, tret>>

VARIABLES
    po,          \* the pushOpts the options are applied to
    applied,     \* the options applied so far, in order
    operr        \* the error the last applied option returned

optsVars == <<po, applied, operr>>

pushVars == <<pathVars, trackVars, optsVars>>

vars == <<deleteVars, pushVars>>

\* How many times the command is invoked on the same registry.
MaxInvocations == 2

----------------------------------------------------------------------------
(* Values *)

\* auth.ActionPull, auth.ActionPush, auth.ActionDelete
ActionPull == "pull"
ActionPush == "push"
ActionDelete == "delete"

\* *bool: nil, or a pointer to false or true
ReferrersAPIValues == {"nil", "false", "true"}

DigestA == "sha256:abc"
DigestB == "sha256:def"
Digests == {DigestA, DigestB}

\* The tags of the repository localhost:5000/hello
Tags == ("v1" :> DigestA) @@ ("latest" :> DigestA) @@ ("v2" :> DigestB)

\* The arguments a user may give
TargetRefs ==
    { "localhost:5000/hello:v1",
      "localhost:5000/hello:v2",
      "localhost:5000/hello@sha256:abc",
      "localhost:5000/hello",
      "localhost:5000/HELLO:v1" }

\* registry.Reference of an argument; the last argument of TargetRefs has an
\* upper-case repository name and does not parse.
ParseReference(ref) ==
    CASE ref = "localhost:5000/hello:v1" ->
           [ok |-> TRUE, Registry |-> "localhost:5000", Repository |-> "hello", Reference |-> "v1"]
      [] ref = "localhost:5000/hello:v2" ->
           [ok |-> TRUE, Registry |-> "localhost:5000", Repository |-> "hello", Reference |-> "v2"]
      [] ref = "localhost:5000/hello@sha256:abc" ->
           [ok |-> TRUE, Registry |-> "localhost:5000", Repository |-> "hello", Reference |-> DigestA]
      [] ref = "localhost:5000/hello" ->
           [ok |-> TRUE, Registry |-> "localhost:5000", Repository |-> "hello", Reference |-> ""]
      [] OTHER ->
           [ok |-> FALSE, Registry |-> "", Repository |-> "", Reference |-> ""]

NoReference == [ok |-> FALSE, Registry |-> "", Repository |-> "", Reference |-> ""]
NoRepo == [Reference |-> NoReference]

\* ocispec.Descriptor
NoDesc == [MediaType |-> "", Digest |-> "", Size |-> 0]
Manifest(d) ==
    [MediaType |-> "application/vnd.oci.image.manifest.v1+json",
     Digest    |-> d,
     Size      |-> IF d = DigestA THEN 1 ELSE 2]

\* Errors: a kind (what errors.Is sees) and the message
Nil == [kind |-> "nil", msg |-> <<>>]
ErrNotFound == [kind |-> "ErrNotFound", msg |-> <<"not", "found">>]
ErrUnauthorized == [kind |-> "ErrUnauthorized", msg |-> <<"unauthorized">>]
ErrOptions == [kind |-> "ErrOptions", msg |-> <<"invalid", "options">>]
ErrStdin == [kind |-> "ErrStdin", msg |-> <<"unexpected", "newline">>]
ErrMarshal == [kind |-> "ErrMarshal", msg |-> <<"json", "error">>]
ErrWrite == [kind |-> "ErrWrite", msg |-> <<"write", "error">>]

\* errors.New(text)
ErrorsNew(words) == [kind |-> "errorString", msg |-> words]
\* fmt.Errorf with %w: the message is extended, errors.Is still sees the cause
Wrap(words, cause) == [kind |-> cause.kind, msg |-> words \o cause.msg]
\* errors.Is(err, errdef.ErrNotFound)
IsNotFound(err) == err.kind = "ErrNotFound"

\* msg has the words w as a contiguous part
HasWords(msg, w) ==
    \E i \in 0..(Len(msg) - Len(w)) : SubSeq(msg, i + 1, i + Len(w)) = w

----------------------------------------------------------------------------
(* Collaborators of deleteManifest *)

\* oerrors.NewErrInvalidReference(ref)
NewErrInvalidReference(ref) ==
    [kind |-> "ErrInvalidReference",
     msg  |-> <<ref.Registry, "/", ref.Repository, ":", "invalid", "reference">>]

\* The actions of a scope: each action once, in the order of first request
RECURSIVE CleanActions(_)
CleanActions(s) ==
    IF s = <<>> THEN <<>>
    ELSE LET front == CleanActions(SubSeq(s, 1, Len(s) - 1))
             last  == s[Len(s)]
         IN  IF \E i \in DOMAIN front : front[i] = last
             THEN front
             ELSE Append(front, last)

\* registryutil.WithScopeHint(repo, ctx, hints...): the context that carries
\* the hints for the repository, deduplicated
WithScopeHint(r, c, hs) ==
    [scope |-> r.Reference.Repository, actions |-> CleanActions(c.actions \o hs)]

\* context of the command before any hint is registered
Background == [scope |-> "", actions |-> <<>>]

\* manifests.Resolve(ctx, ref): the results the registry may give
StoreResolve(st, ref) ==
    LET r == ParseReference(ref)
        d == IF r.Reference \in Digests THEN r.Reference
             ELSE IF r.Reference \in DOMAIN Tags THEN Tags[r.Reference]
             ELSE ""
    IN  { IF d \in st THEN [desc |-> Manifest(d), err |-> Nil]
                    ELSE [desc |-> NoDesc, err |-> ErrNotFound],
          [desc |-> NoDesc, err |-> ErrUnauthorized] }

\* manifests.Delete(ctx, desc): the results the registry may give
StoreDelete(st, d) ==
    { [store |-> st \ {d.Digest}, err |-> Nil],
      [store |-> st, err |-> ErrUnauthorized] }

\* opts.AskForConfirmation(os.Stdin, prompt): with Force the question is not
\* asked; otherwise the user answers, or reading the answer fails
AskForConfirmation(force) ==
    IF force
    THEN { [confirmed |-> TRUE, err |-> Nil, info |-> "skipped"] }
    ELSE { [confirmed |-> TRUE, err |-> Nil, info |-> "asked"],
           [confirmed |-> FALSE, err |-> Nil, info |-> "asked"],
           [confirmed |-> FALSE, err |-> ErrStdin, info |-> "asked"] }

\* opts.Marshal(desc)
Marshal(d) ==
    { [bytes |-> <<"{", "mediaType", d.MediaType, "digest", d.Digest, "size", d.Size, "}">>,
       err |-> Nil],
      [bytes |-> <<>>, err |-> ErrMarshal] }

\* opts.Output(os.Stdout, descJSON)
Output(out, bytes) ==
    { [stdout |-> Append(out, bytes), err |-> Nil],
      [stdout |-> out, err |-> ErrWrite] }

\* option.Parse(&opts)
OptionParse == {Nil, ErrOptions}

\* One call, as the invocation issued it: the context it was given, whether
\* it succeeded (for the confirmation: was confirmed) and the error it gave
Call(op, ok, err, info) ==
    [op |-> op, ctx |-> ctx, ok |-> ok, err |-> err, info |-> info]

----------------------------------------------------------------------------
(* Idle parts *)

DeleteIdle ==
    /\ invocation = 0
    /\ args = <<>>
    /\ opts = [Force |-> FALSE, OutputDescriptor |-> FALSE, ReferrersAPI |-> "nil",
               targetRef |-> ""]
    /\ pc = "idle"
    /\ repo = NoRepo
    /\ hints = <<>>
    /\ ctx = Background
    /\ desc = NoDesc
    /\ prompt = <<>>
    /\ calls = <<>>
    /\ stdout = <<>>
    /\ ret = Nil
    /\ store = {}
    /\ store0 = {}

PathIdle ==
    /\ vdesc = "idle"
    /\ vpc = "idle"
    /\ verr = Nil

TrackIdle ==
    /\ tdesc = <<>>
    /\ tpc = <<>>
    /\ printLock = 0
    /\ sink = <<>>
    /\ tret = <<>>

OptsIdle ==
    /\ po = "idle"
    /\ applied = <<>>
    /\ operr = Nil

PushIdle == PathIdle /\ TrackIdle /\ OptsIdle

----------------------------------------------------------------------------
(* The command *)

\* A fresh deleteCmd with its flags parsed, on registry st
NewCommand(n, st) ==
    /\ invocation = n
    /\ args \in {<<a>> : a \in TargetRefs}
    /\ opts \in [Force : BOOLEAN, OutputDescriptor : BOOLEAN,
                 ReferrersAPI : ReferrersAPIValues, targetRef : {""}]
    /\ pc = "PreRunE"
    /\ repo = NoRepo
    /\ hints = <<>>
    /\ ctx = Background
    /\ desc = NoDesc
    /\ prompt = <<>>
    /\ calls = <<>>
    /\ stdout = <<>>
    /\ ret = Nil
    /\ store = st
    /\ store0 = st

Init ==
    /\ \E st \in SUBSET Digests : NewCommand(1, st)
    /\ PushIdle

Return(err) ==
    /\ ret' = err
    /\ pc' = "done"

\* The flags rejected when force and descriptor output are given together
PreRunERejects_forceWithDescriptor(o) == o.OutputDescriptor /\ o.Force

\* PreRunE refuses no combination of flags
PreRunERejects_never(o) == FALSE

\* Flags that PreRunE refuses
PreRunERejects(o) == o.OutputDescriptor /\ ~o.Force

PreRunE ==
    /\ pc = "PreRunE"
    /\ IF PreRunERejects(opts)
       THEN Return(ErrorsNew(<<"must", "apply", "--force", "to", "confirm", "the",
                               "deletion", "if", "the", "descriptor", "is", "outputted">>))
       ELSE \E e \in OptionParse :
              IF e # Nil THEN Return(e)
              ELSE /\ pc' = "RunE"
                   /\ UNCHANGED ret
    /\ UNCHANGED <<invocation, args, opts, repo, hints, ctx, desc, prompt, calls,
                   stdout, store, store0>>
    /\ UNCHANGED pushVars

RunE ==
    /\ pc = "RunE"
    /\ opts' = [opts EXCEPT !.targetRef = args[1]]
    /\ pc' = "NewRepository"
    /\ UNCHANGED <<invocation, args, repo, hints, ctx, desc, prompt, calls, stdout,
                   ret, store, store0>>
    /\ UNCHANGED pushVars

\* No reference counts as empty
EmptyReference_never(ref) == FALSE

\* repo.Reference.Reference == ""
EmptyReference(ref) == ref.Reference = ""

\* deleteManifest up to the check of the reference
NewRepository ==
    /\ pc = "NewRepository"
    /\ LET ref == ParseReference(opts.targetRef)
       IN  IF ~ref.ok
           THEN /\ Return(ErrorsNew(<<opts.targetRef, ":", "invalid", "reference">>))
                /\ UNCHANGED repo
           ELSE /\ repo' = [Reference |-> ref]
                /\ IF EmptyReference(ref)
                   THEN Return(NewErrInvalidReference(ref))
                   ELSE /\ pc' = "ScopeHint"
                        /\ UNCHANGED ret
    /\ UNCHANGED <<invocation, args, opts, hints, ctx, desc, prompt, calls, stdout,
                   store, store0>>
    /\ UNCHANGED pushVars

\* The second push hint is added when the referrers API is supported
Hints_inverted(referrersAPI) ==
    LET base == <<ActionPull, ActionPush, ActionDelete>>
    IN  IF referrersAPI = "true"
        THEN Append(base, ActionPush)
        ELSE base

\* The slice `hints`
Hints(referrersAPI) ==
    LET base == <<ActionPull, ActionPush, ActionDelete>>
    IN  IF referrersAPI = "nil" \/ referrersAPI = "false"
        THEN Append(base, ActionPush)
        ELSE base

\* The context WithScopeHint returned is dropped
ScopedCtx_discarded(r, c, hs) == c

\* ctx = registryutil.WithScopeHint(repo, ctx, hints...)
ScopedCtx(r, c, hs) == WithScopeHint(r, c, hs)

ScopeHint ==
    /\ pc = "ScopeHint"
    /\ hints' = Hints(opts.ReferrersAPI)
    /\ ctx' = ScopedCtx(repo, ctx, hints')
    /\ calls' = Append(calls, [op |-> "WithScopeHint",
                               ctx |-> WithScopeHint(repo, ctx, hints'),
                               ok |-> TRUE, err |-> Nil,
                               info |-> repo.Reference.Repository])
    /\ pc' = "Resolve"
    /\ UNCHANGED <<invocation, args, opts, repo, desc, prompt, stdout, ret, store,
                   store0>>
    /\ UNCHANGED pushVars

\* A missing manifest is ignored under force, whatever the output
IgnoreNonexistent_forceOnly(o) == o.Force

\* A missing manifest is ignored when force comes with descriptor output
IgnoreNonexistent_withDescriptor(o) == o.Force /\ o.OutputDescriptor

\* A missing manifest is not an error
IgnoreNonexistent(o) == o.Force /\ ~o.OutputDescriptor

\* A Resolve failure is returned with the reference put in front
ResolveError_wrapped(ref, err) == Wrap(<<ref, ":">>, err)

\* return err: a Resolve failure other than not-found
ResolveError(ref, err) == err

Resolve ==
    /\ pc = "Resolve"
    /\ \E r \in StoreResolve(store, opts.targetRef) :
         /\ calls' = Append(calls, Call("Resolve", r.err = Nil, r.err, opts.targetRef))
         /\ IF r.err # Nil
            THEN /\ UNCHANGED <<desc, prompt>>
                 /\ IF IsNotFound(r.err)
                    THEN IF IgnoreNonexistent(opts)
                         THEN /\ stdout' = Append(stdout, <<"Missing", opts.targetRef>>)
                              /\ Return(Nil)
                         ELSE /\ Return(ErrorsNew(<<opts.targetRef, ":", "the", "specified",
                                                    "manifest", "does", "not", "exist">>))
                              /\ UNCHANGED stdout
                    ELSE /\ Return(ResolveError(opts.targetRef, r.err))
                         /\ UNCHANGED stdout
            ELSE /\ desc' = r.desc
                 /\ prompt' = <<"Are", "you", "sure", "you", "want", "to", "delete", "the",
                                "manifest", r.desc.Digest, "and", "all", "tags",
                                "associated", "with", "it?">>
                 /\ pc' = "AskForConfirmation"
                 /\ UNCHANGED <<stdout, ret>>
    /\ UNCHANGED <<invocation, args, opts, repo, hints, ctx, store, store0>>
    /\ UNCHANGED pushVars

\* The answer is not looked at
Declined_ignored(confirmed) == FALSE

\* if !confirmed
Declined(confirmed) == ~confirmed

Confirm ==
    /\ pc = "AskForConfirmation"
    /\ \E a \in AskForConfirmation(opts.Force) :
         /\ calls' = Append(calls, Call("AskForConfirmation", a.confirmed, a.err, a.info))
         /\ IF a.err # Nil THEN Return(a.err)
            ELSE IF Declined(a.confirmed) THEN Return(Nil)
            ELSE /\ pc' = "Delete"
                 /\ UNCHANGED ret
    /\ UNCHANGED <<invocation, args, opts, repo, hints, ctx, desc, prompt, stdout,
                   store, store0>>
    /\ UNCHANGED pushVars

\* A failed Delete is tried again
AfterDeleteFailure_retry == "Delete"

\* A failed Delete falls through to the report
AfterDeleteFailure_report == "Report"

\* Where deleteManifest goes after a failed Delete: it returns
AfterDeleteFailure == "done"

\* The test of Delete's error is inverted
DeleteFailed_inverted(err) == err = Nil

\* if err = manifests.Delete(ctx, desc); err != nil
DeleteFailed(err) == err # Nil

\* A Delete failure is returned as it is
DeleteError_bare(ref, cause) == cause

\* fmt.Errorf("failed to delete %s: %w", opts.targetRef, err)
DeleteError(ref, cause) == Wrap(<<"failed", "to", "delete", ref, ":">>, cause)

Delete ==
    /\ pc = "Delete"
    /\ \E r \in StoreDelete(store, desc) :
         /\ calls' = Append(calls, Call("Delete", r.err = Nil, r.err, desc.Digest))
         /\ store' = r.store
         /\ IF DeleteFailed(r.err)
            THEN /\ ret' = DeleteError(opts.targetRef, r.err)
                 /\ pc' = AfterDeleteFailure
            ELSE /\ pc' = "Report"
                 /\ UNCHANGED ret
    /\ UNCHANGED <<invocation, args, opts, repo, hints, ctx, desc, prompt, stdout,
                   store0>>
    /\ UNCHANGED pushVars

\* The descriptor is written when it was not asked for
ReportsDescriptor_inverted(o) == ~o.OutputDescriptor

\* if opts.OutputDescriptor
ReportsDescriptor(o) == o.OutputDescriptor

Report ==
    /\ pc = "Report"
    /\ IF ReportsDescriptor(opts)
       THEN \E m \in Marshal(desc) :
              IF m.err # Nil
              THEN /\ Return(m.err)
                   /\ UNCHANGED stdout
              ELSE \E o \in Output(stdout, m.bytes) :
                     /\ stdout' = o.stdout
                     /\ Return(o.err)
       ELSE /\ stdout' = Append(stdout, <<"Deleted", opts.targetRef>>)
            /\ Return(Nil)
    /\ UNCHANGED <<invocation, args, opts, repo, hints, ctx, desc, prompt, calls,
                   store, store0>>
    /\ UNCHANGED pushVars

\* The command is run again on the registry the last run left
Invoke ==
    /\ pc = "done"
    /\ invocation < MaxInvocations
    /\ invocation' = invocation + 1
    /\ args' \in {<<a>> : a \in TargetRefs}
    /\ opts' \in [Force : BOOLEAN, OutputDescriptor : BOOLEAN,
                  ReferrersAPI : ReferrersAPIValues, targetRef : {""}]
    /\ pc' = "PreRunE"
    /\ repo' = NoRepo
    /\ hints' = <<>>
    /\ ctx' = Background
    /\ desc' = NoDesc
    /\ prompt' = <<>>
    /\ calls' = <<>>
    /\ stdout' = <<>>
    /\ ret' = Nil
    /\ store0' = store
    /\ UNCHANGED store
    /\ UNCHANGED pushVars

Next ==
    \/ PreRunE
    \/ RunE
    \/ NewRepository
    \/ ScopeHint
    \/ Resolve
    \/ Confirm
    \/ Delete
    \/ Report
    \/ Invoke

Spec == Init /\ [][Next]_vars

----------------------------------------------------------------------------
(* ValidateNameAsPath *)

\* Names are sequences of characters. Longest name tried, next to the
\* names the documentation gives as examples.
MaxNameLen == 4

Chars == {"a", "b", "C", "/", ".", "\\", ":"}

ExampleNames ==
    { <<"a", "/", ".", "/", "b">>,
      <<"a", "\\", "b">>,
      <<"/", "a", "/", "b">>,
      <<"C", ":", "/", "a", "/", "b">>,
      <<".", ".">>,
      <<".", ".", "/", "a">>,
      <<"a", "/", "b", "/", "c">> }

Names == UNION {[1..n -> Chars] : n \in 0..MaxNameLen} \cup ExampleNames

\* The byte of a character
Code(c) ==
    CASE c = "a" -> 97 [] c = "b" -> 98 [] c = "c" -> 99 [] c = "z" -> 122
      [] c = "A" -> 65 [] c = "C" -> 67 [] c = "Z" -> 90
      [] c = "/" -> 47 [] c = "." -> 46 [] c = "\\" -> 92 [] c = ":" -> 58

\* ocispec.AnnotationTitle
AnnotationTitle == "org.opencontainers.image.title"

\* A descriptor as far as its name goes: with or without the title annotation
NamedDesc(name) == [Annotations |-> (AnnotationTitle :> name)]
UnnamedDesc == [Annotations |-> <<>>]

\* orascontent.ResolveName(desc)
ResolveName(d) ==
    IF AnnotationTitle \in DOMAIN d.Annotations
    THEN [name |-> d.Annotations[AnnotationTitle], ok |-> TRUE]
    ELSE [name |-> <<>>, ok |-> FALSE]

\* filepath.Separator of the build
Separator == "/"

\* filepath.Clean backs out of a `..`: the last element of out is dropped
RECURSIVE CleanBack(_, _, _)
CleanBack(out, w, dotdot) ==
    IF w > dotdot /\ out[w + 1] # Separator
    THEN CleanBack(out, w - 1, dotdot)
    ELSE SubSeq(out, 1, w)

\* The end of the path element that starts at r
RECURSIVE ElementEnd(_, _)
ElementEnd(path, r) ==
    IF r <= Len(path) /\ path[r] # Separator THEN ElementEnd(path, r + 1) ELSE r

\* The loop of filepath.Clean: r is the next character to read, out the
\* cleaned path so far, dotdot the length of out that `..` cannot back over
RECURSIVE CleanLoop(_, _, _, _, _)
CleanLoop(path, r, out, dotdot, rooted) ==
    LET n == Len(path) IN
    IF r > n THEN out
    ELSE IF path[r] = Separator
    THEN CleanLoop(path, r + 1, out, dotdot, rooted)
    ELSE IF path[r] = "." /\ (r = n \/ path[r + 1] = Separator)
    THEN CleanLoop(path, r + 1, out, dotdot, rooted)
    ELSE IF path[r] = "." /\ path[r + 1] = "." /\ (r + 1 = n \/ path[r + 2] = Separator)
    THEN IF Len(out) > dotdot
         THEN CleanLoop(path, r + 2, CleanBack(out, Len(out) - 1, dotdot), dotdot, rooted)
         ELSE IF ~rooted
         THEN LET o == (IF Len(out) > 0 THEN Append(out, Separator) ELSE out)
                         \o <<".", ".">>
              IN  CleanLoop(path, r + 2, o, Len(o), rooted)
         ELSE CleanLoop(path, r + 2, out, dotdot, rooted)
    ELSE LET o == IF (rooted /\ Len(out) # 1) \/ (~rooted /\ Len(out) # 0)
                  THEN Append(out, Separator)
                  ELSE out
             e == ElementEnd(path, r)
         IN  CleanLoop(path, e, o \o SubSeq(path, r, e - 1), dotdot, rooted)

\* filepath.Clean(path)
Clean(path) ==
    IF path = <<>> THEN <<".">>
    ELSE LET rooted == path[1] = Separator
             out == IF rooted
                    THEN CleanLoop(path, 2, <<Separator>>, 1, TRUE)
                    ELSE CleanLoop(path, 1, <<>>, 0, FALSE)
         IN  IF out = <<>> THEN <<".">> ELSE out

\* filepath.ToSlash(path)
ToSlash(path) == [i \in 1..Len(path) |-> IF path[i] = Separator THEN "/" ELSE path[i]]

\* strings.HasPrefix(s, prefix), strings.Contains(s, c)
HasPrefix(s, prefix) ==
    Len(s) >= Len(prefix) /\ SubSeq(s, 1, Len(prefix)) = prefix
Contains(s, c) == \E i \in DOMAIN s : s[i] = c

\* The errors of the validator; errors.Wrap(err, path) keeps err as the cause
ErrNoName == [kind |-> "ErrNoName", msg |-> <<>>]
ErrorsWrap(kind, path) == [kind |-> kind, msg |-> path]

\* 'a' <= c && c <= 'z' || 'A' <= c && c <= 'Z'
IsDriveLetter(c) ==
    \/ Code("a") <= Code(c) /\ Code(c) <= Code("z")
    \/ Code("A") <= Code(c) /\ Code(c) <= Code("Z")

\* The traversal rule looks at the prefix "../" only
ValidateNameAsPath_prefixOnly(d) ==
    LET r == ResolveName(d)
        path == r.name
    IN  IF ~r.ok \/ path = <<>> THEN ErrNoName
        ELSE IF ToSlash(Clean(path)) # path THEN ErrorsWrap("ErrDirtyPath", path)
        ELSE IF Contains(path, "\\") THEN ErrorsWrap("ErrPathNotSlashSeparated", path)
        ELSE IF HasPrefix(path, <<"/">>) THEN ErrorsWrap("ErrAbsolutePathDisallowed", path)
        ELSE IF Len(path) > 2 /\ path[2] = ":" /\ path[3] = "/" /\ IsDriveLetter(path[1])
        THEN ErrorsWrap("ErrAbsolutePathDisallowed", path)
        ELSE IF HasPrefix(path, <<".", ".", "/">>)
        THEN ErrorsWrap("ErrPathTraversalDisallowed", path)
        ELSE Nil

ValidateNameAsPath(d) ==
    LET r == ResolveName(d)
        path == r.name
    IN  IF ~r.ok \/ path = <<>> THEN ErrNoName
        ELSE IF ToSlash(Clean(path)) # path THEN ErrorsWrap("ErrDirtyPath", path)
        ELSE IF Contains(path, "\\") THEN ErrorsWrap("ErrPathNotSlashSeparated", path)
        ELSE IF HasPrefix(path, <<"/">>) THEN ErrorsWrap("ErrAbsolutePathDisallowed", path)
        ELSE IF Len(path) > 2 /\ path[2] = ":" /\ path[3] = "/" /\ IsDriveLetter(path[1])
        THEN ErrorsWrap("ErrAbsolutePathDisallowed", path)
        ELSE IF HasPrefix(path, <<".", ".", "/">>) \/ path = <<".", ".">>
        THEN ErrorsWrap("ErrPathTraversalDisallowed", path)
        ELSE Nil

InitPath ==
    /\ DeleteIdle /\ TrackIdle /\ OptsIdle
    /\ vdesc \in {UnnamedDesc} \cup {NamedDesc(n) : n \in Names}
    /\ vpc = "call"
    /\ verr = Nil

Validate ==
    /\ vpc = "call"
    /\ verr' = ValidateNameAsPath(vdesc)
    /\ vpc' = "returned"
    /\ UNCHANGED <<vdesc, deleteVars, trackVars, optsVars>>

NextPath == Validate

SpecPath == InitPath /\ [][NextPath]_vars

----------------------------------------------------------------------------
(* pushStatusTrack: one handler, called by concurrent workers *)

\* The workers that call the handler, each once
NumWorkers == 2
Workers == 1..NumWorkers

\* How much of the digest a line shows: desc.Digest.Encoded()[:12]
ShortDigestLen == 12

\* A sha256 digest, as the characters of the string
DigestOf(c) ==
    <<"s", "h", "a", "2", "5", "6", ":">>
        \o [i \in 1..64 |-> IF i <= ShortDigestLen THEN c ELSE "f"]

\* digest.Digest.Encoded(): the part after the separator
Encoded(d) ==
    LET sep == CHOOSE i \in DOMAIN d : d[i] = ":" /\ \A j \in 1..(i - 1) : d[j] # ":"
    IN  SubSeq(d, sep + 1, Len(d))

\* The descriptors the workers come with: named, unnamed, named with ""
TrackDescs ==
    { [Digest |-> DigestOf("a"), Annotations |-> (AnnotationTitle :> "hello.txt")],
      [Digest |-> DigestOf("b"), Annotations |-> (AnnotationTitle :> "dir/file")],
      [Digest |-> DigestOf("a"), Annotations |-> (AnnotationTitle :> "")],
      [Digest |-> DigestOf("c"), Annotations |-> <<>>] }

\* fmt.Fprintln(writer, "Uploading", desc.Digest.Encoded()[:12], name): the
\* pieces of the line, which the writer takes one after the other
Line(d) ==
    << <<"Uploading">>,
       SubSeq(Encoded(d.Digest), 1, ShortDigestLen),
       <<ResolveName(d).name>>,
       <<"\n">> >>

NotReturned == [returned |-> FALSE, dependents |-> <<>>, err |-> Nil]
At(w, at) == tpc[w].at = at

InitTrack ==
    /\ DeleteIdle /\ PathIdle /\ OptsIdle
    /\ tdesc \in [Workers -> TrackDescs]
    /\ tpc = [w \in Workers |-> [at |-> "call", n |-> 0]]
    /\ printLock = 0
    /\ sink = <<>>
    /\ tret = [w \in Workers |-> NotReturned]

\* Each call of the handler has a mutex of its own
MutexFree_perCall(holder) == TRUE

\* printLock.Lock() goes through when nobody holds printLock
MutexFree(holder) == holder = 0

\* if name, ok := orascontent.ResolveName(desc); ok
HandlerCall ==
    \E w \in Workers :
       /\ At(w, "call")
       /\ tpc' = [tpc EXCEPT ![w] = [at |-> IF ResolveName(tdesc[w]).ok
                                            THEN "lock" ELSE "return",
                                     n |-> 0]]
       /\ UNCHANGED <<tdesc, printLock, sink, tret, deleteVars, pathVars, optsVars>>

\* printLock.Lock()
HandlerLock ==
    \E w \in Workers :
       /\ At(w, "lock")
       /\ MutexFree(printLock)
       /\ printLock' = w
       /\ tpc' = [tpc EXCEPT ![w] = [at |-> "write", n |-> 0]]
       /\ UNCHANGED <<tdesc, sink, tret, deleteVars, pathVars, optsVars>>

\* fmt.Fprintln: the next piece of the line reaches the writer
HandlerWrite ==
    \E w \in Workers :
       /\ At(w, "write")
       /\ LET line == Line(tdesc[w])
              n == tpc[w].n + 1
          IN  /\ sink' = Append(sink, line[n])
              /\ tpc' = [tpc EXCEPT ![w] = IF n = Len(line)
                                           THEN [at |-> "unlock", n |-> n]
                                           ELSE [at |-> "write", n |-> n]]
       /\ UNCHANGED <<tdesc, printLock, tret, deleteVars, pathVars, optsVars>>

\* return nil, nil, with the deferred printLock.Unlock() when it was locked
HandlerReturn ==
    \E w \in Workers :
       /\ At(w, "unlock") \/ At(w, "return")
       /\ printLock' = IF At(w, "unlock") THEN 0 ELSE printLock
       /\ tret' = [tret EXCEPT ![w] = [returned |-> TRUE, dependents |-> <<>>,
                                       err |-> Nil]]
       /\ tpc' = [tpc EXCEPT ![w] = [at |-> "returned", n |-> tpc[w].n]]
       /\ UNCHANGED <<tdesc, sink, deleteVars, pathVars, optsVars>>

NextTrack ==
    \/ HandlerCall
    \/ HandlerLock
    \/ HandlerWrite
    \/ HandlerReturn

SpecTrack == InitTrack /\ [][NextTrack]_vars

----------------------------------------------------------------------------
(* The push options, applied to pushOptsDefaults *)

\* How many options are applied to one pushOpts
MaxOpts == 3

\* A pointer is the empty sequence (nil) or the sequence of the value it
\* points to. Annotation maps, writers, validators and custom handlers are
\* opaque to the options and are named by strings.
NilPtr == <<>>
PtrTo(v) == <<v>>

\* The arguments the options are called with
OptDescs ==
    { [MediaType |-> "application/vnd.oci.image.config.v1+json", Digest |-> "sha256:1",
       Size |-> 1, Annotations |-> "annotationsA", Platform |-> "linux/amd64"],
      [MediaType |-> "application/vnd.oci.image.manifest.v1+json", Digest |-> "sha256:2",
       Size |-> 2, Annotations |-> "nil", Platform |-> "nil"] }
OptMediaTypes == {"application/vnd.unknown.config.v1+json", ""}
OptAnnotations == {"nil", "annotationsA"}
OptWriters == {"stdout", "buffer"}
OptValidators == {"nil", "ValidateNameAsPath", "custom"}
OptHandlerLists ==
    { <<>>,
      <<[type |-> "custom", of |-> "h1"]>>,
      <<[type |-> "custom", of |-> "h2"]>>,
      <<[type |-> "custom", of |-> "h2"], [type |-> "custom", of |-> "h1"]>> }
OptArtifactTypes == {"application/vnd.example.sbom"}

\* pushOptsDefaults()
pushOptsDefaults ==
    [config              |-> NilPtr,
     configMediaType     |-> "",
     configAnnotations   |-> "nil",
     manifest            |-> NilPtr,
     manifestAnnotations |-> "nil",
     manifestWriter      |-> "nil",
     validateName        |-> "ValidateNameAsPath",
     baseHandlers        |-> <<>>,
     artifact            |-> NilPtr]

\* What the function of an option gives: the pushOpts as it leaves it, and
\* the error it returns
Applied(o) == [o |-> o, err |-> Nil]

WithConfig(config, o) == Applied([o EXCEPT !.config = PtrTo(config)])

WithConfigMediaType(mediaType, o) == Applied([o EXCEPT !.configMediaType = mediaType])

WithConfigAnnotations(annotations, o) ==
    Applied([o EXCEPT !.configAnnotations = annotations])

\* The manifest is stored as the config
WithManifest_setsConfig(manifest, o) == Applied([o EXCEPT !.config = PtrTo(manifest)])

WithManifest(manifest, o) == Applied([o EXCEPT !.manifest = PtrTo(manifest)])

WithManifestAnnotations(annotations, o) ==
    Applied([o EXCEPT !.manifestAnnotations = annotations])

WithManifestWriter(writer, o) == Applied([o EXCEPT !.manifestWriter = writer])

WithNameValidation(validate, o) == Applied([o EXCEPT !.validateName = validate])

\* The handlers replace the ones given before
WithPushBaseHandler_replaces(handlers, o) == Applied([o EXCEPT !.baseHandlers = handlers])

\* o.baseHandlers = append(o.baseHandlers, handlers...)
WithPushBaseHandler(handlers, o) ==
    Applied([o EXCEPT !.baseHandlers = o.baseHandlers \o handlers])

\* pushStatusTrack(writer): the handler, with its writer
pushStatusTrack(writer) == [type |-> "pushStatusTrack", of |-> writer]

WithPushStatusTrack(writer, o) == WithPushBaseHandler(<<pushStatusTrack(writer)>>, o)

\* convertV1DescriptorToV2(desc): the descriptor of the artifact spec
convertV1DescriptorToV2(d) ==
    [MediaType |-> d.MediaType, Digest |-> d.Digest, Size |-> d.Size,
     Annotations |-> d.Annotations]

AsArtifact(artifactType, manifest, o) ==
    Applied([o EXCEPT !.artifact =
                PtrTo([ArtifactType |-> artifactType,
                       Subject |-> convertV1DescriptorToV2(manifest)])])

InitOpts ==
    /\ DeleteIdle /\ PathIdle /\ TrackIdle
    /\ po = pushOptsDefaults
    /\ applied = <<>>
    /\ operr = Nil

\* One more option is applied: opt(o) for an option of the caller's list
ApplyOption(opt, res) ==
    /\ Len(applied) < MaxOpts
    /\ po' = res.o
    /\ operr' = res.err
    /\ applied' = Append(applied, opt)
    /\ UNCHANGED <<deleteVars, pathVars, trackVars>>

ApplyWithConfig ==
    \E d \in OptDescs :
       ApplyOption([opt |-> "WithConfig", arg |-> d], WithConfig(d, po))

ApplyWithConfigMediaType ==
    \E t \in OptMediaTypes :
       ApplyOption([opt |-> "WithConfigMediaType", arg |-> t], WithConfigMediaType(t, po))

ApplyWithConfigAnnotations ==
    \E a \in OptAnnotations :
       ApplyOption([opt |-> "WithConfigAnnotations", arg |-> a],
                   WithConfigAnnotations(a, po))

ApplyWithManifest ==
    \E d \in OptDescs :
       ApplyOption([opt |-> "WithManifest", arg |-> d], WithManifest(d, po))

ApplyWithManifestAnnotations ==
    \E a \in OptAnnotations :
       ApplyOption([opt |-> "WithManifestAnnotations", arg |-> a],
                   WithManifestAnnotations(a, po))

ApplyWithManifestWriter ==
    \E w \in OptWriters :
       ApplyOption([opt |-> "WithManifestWriter", arg |-> w], WithManifestWriter(w, po))

ApplyWithNameValidation ==
    \E v \in OptValidators :
       ApplyOption([opt |-> "WithNameValidation", arg |-> v], WithNameValidation(v, po))

ApplyWithPushBaseHandler ==
    \E hs \in OptHandlerLists :
       ApplyOption([opt |-> "WithPushBaseHandler", arg |-> hs],
                   WithPushBaseHandler(hs, po))

ApplyWithPushStatusTrack ==
    \E w \in OptWriters :
       ApplyOption([opt |-> "WithPushStatusTrack", arg |-> w], WithPushStatusTrack(w, po))

ApplyAsArtifact ==
    \E t \in OptArtifactTypes, d \in OptDescs :
       ApplyOption([opt |-> "AsArtifact", arg |-> [artifactType |-> t, manifest |-> d]],
                   AsArtifact(t, d, po))

NextOpts ==
    \/ ApplyWithConfig
    \/ ApplyWithConfigMediaType
    \/ ApplyWithConfigAnnotations
    \/ ApplyWithManifest
    \/ ApplyWithManifestAnnotations
    \/ ApplyWithManifestWriter
    \/ ApplyWithNameValidation
    \/ ApplyWithPushBaseHandler
    \/ ApplyWithPushStatusTrack
    \/ ApplyAsArtifact

SpecOpts == InitOpts /\ [][NextOpts]_vars

----------------------------------------------------------------------------
(* Properties of the delete command *)

Called(op) == \E i \in DOMAIN calls : calls[i].op = op
CallsOf(op) == {i \in DOMAIN calls : calls[i].op = op}
Printed(word) == \E i \in DOMAIN stdout : stdout[i][1] = word
ResolveNotFound ==
    \E i \in DOMAIN calls : calls[i].op = "Resolve" /\ IsNotFound(calls[i].err)
Count(s, x) == Cardinality({i \in DOMAIN s : s[i] = x})
Elems(s) == {s[i] : i \in DOMAIN s}
\* The invocation was refused in pre-run: nothing of RunE has happened
RejectedInPreRun ==
    /\ pc = "done"
    /\ ret # Nil
    /\ opts.targetRef = ""
    /\ repo = NoRepo
    /\ ctx = Background
    /\ calls = <<>>
    /\ stdout = <<>>

C3_MissingUnderForce ==
    (ResolveNotFound /\ opts.Force /\ ~opts.OutputDescriptor)
        => /\ pc = "done"
           /\ ret = Nil
           /\ stdout = << <<"Missing", opts.targetRef>> >>
           /\ opts.targetRef = args[1]
           /\ ~Called("AskForConfirmation")
           /\ ~Called("Delete")
           /\ store = store0

C3_Witness ==
    /\ ResolveNotFound /\ opts.Force /\ ~opts.OutputDescriptor
    /\ Printed("Missing")

\* C4: when Resolve fails with not-found and it is not the case that force
\* is set without descriptor output, the invocation returns an error whose
\* message contains the target reference and "does not exist", prints
\* nothing and calls no Delete.
C4_NotFoundIsAnError ==
    (ResolveNotFound /\ ~(opts.Force /\ ~opts.OutputDescriptor))
        => /\ pc = "done"
           /\ ret # Nil
           /\ HasWords(ret.msg, <<args[1]>>)
           /\ HasWords(ret.msg, <<"does", "not", "exist">>)
           /\ stdout = <<>>
           /\ ~Called("Delete")
           /\ store = store0

C4_Witness ==
    /\ ResolveNotFound /\ opts.Force /\ opts.OutputDescriptor
    /\ pc = "done"
    /\ HasWords(ret.msg, <<"does", "not", "exist">>)

\* The confirmation step returned not-confirmed, without error
ConfirmationDeclined ==
    \E i \in CallsOf("AskForConfirmation") : ~calls[i].ok /\ calls[i].err = Nil

\* C5: when Resolve succeeded and the confirmation step returned
\* not-confirmed without error, the invocation returns nil, calls no Delete,
\* writes neither a "Deleted" line nor a descriptor, and deletes nothing.
C5_DeclinedIsCleanReturn ==
    ((\E i \in CallsOf("Resolve") : calls[i].ok) /\ ConfirmationDeclined)
        => /\ pc = "done"
           /\ ret = Nil
           /\ ~Called("Delete")
           /\ stdout = <<>>
           /\ store = store0

C5_Witness ==
    /\ ConfirmationDeclined
    /\ desc.Digest \in store
    /\ pc = "done"

\* C6: the scope hints are registered before Resolve, and every call of
\* Resolve and of Delete is given the context that carries the registered
\* hints: no store call is issued on a context without them.
C6_HintsBeforeStoreCalls ==
    \A i \in CallsOf("Resolve") \cup CallsOf("Delete") :
       /\ calls[i].ctx # Background
       /\ Elems(calls[i].ctx.actions) = Elems(hints)
       /\ calls[i].ctx.scope = repo.Reference.Repository
       /\ \E j \in CallsOf("WithScopeHint") : j < i /\ calls[j].ctx = calls[i].ctx

C6_Witness ==
    /\ \E i \in CallsOf("Delete") : calls[i].ctx.actions # <<>>
    /\ \E i \in CallsOf("Resolve") : calls[i].ctx.actions # <<>>

\* A success report: the "Deleted" line or the descriptor
Reported == Printed("Deleted") \/ Printed("{")

\* C7: Delete is issued only after Resolve succeeded and after the
\* confirmation step then completed with a positive result, and a success
\* report is on the output only after Delete returned successfully.
C7_ResolveConfirmDeleteReport ==
    /\ \A i \in CallsOf("Delete") :
         \E j, k \in DOMAIN calls :
            /\ j < k /\ k < i
            /\ calls[j].op = "Resolve" /\ calls[j].ok
            /\ calls[k].op = "AskForConfirmation" /\ calls[k].ok
            /\ calls[k].err = Nil
    /\ Reported => \E i \in CallsOf("Delete") : calls[i].ok /\ calls[i].err = Nil
    /\ Reported => pc = "done"

C7_Witness ==
    /\ Printed("Deleted")
    /\ \E i \in CallsOf("AskForConfirmation") : calls[i].info = "asked"
    /\ \E i \in CallsOf("Delete") : calls[i].ok

\* C8: within one invocation Resolve is called at most once and Delete at
\* most once, no Resolve follows a Delete, and a failed Resolve or Delete is
\* the last store call of the invocation (it is not retried).
C8_SingleResolveSingleDelete ==
    /\ Cardinality(CallsOf("Resolve")) <= 1
    /\ Cardinality(CallsOf("Delete")) <= 1
    /\ \A i \in CallsOf("Delete") : \A j \in CallsOf("Resolve") : j < i
    /\ \A i \in CallsOf("Resolve") \cup CallsOf("Delete") :
         ~calls[i].ok => (i = Len(calls) /\ pc = "done")

C8_Witness ==
    /\ pc = "done"
    /\ \E i \in CallsOf("Delete") : ~calls[i].ok
    /\ HasWords(ret.msg, <<"failed", "to", "delete">>)

\* C9: when the parsed target has an empty reference component, the
\* invocation has returned an invalid-reference error with no scope hint
\* registered and without reaching Resolve, the confirmation or Delete.
C9_EmptyReferenceFailsFirst ==
    (repo # NoRepo /\ repo.Reference.Reference = "")
        => /\ pc = "done"
           /\ ret.kind = "ErrInvalidReference"
           /\ hints = <<>>
           /\ ctx = Background
           /\ calls = <<>>
           /\ stdout = <<>>
           /\ store = store0

C9_Witness ==
    /\ repo # NoRepo
    /\ repo.Reference.Reference = ""
    /\ ret.kind = "ErrInvalidReference"

\* C10: for every value of the referrers-API capability the registered hint
\* set is {pull, push, delete}; when the capability is unknown or false push
\* is requested twice, and yet push is registered exactly once.
C10_HintSet ==
    Called("WithScopeHint")
        => /\ Elems(ctx.actions) = {ActionPull, ActionPush, ActionDelete}
           /\ Count(ctx.actions, ActionPush) = 1
           /\ Len(ctx.actions) = Cardinality(Elems(ctx.actions))
           /\ opts.ReferrersAPI \in {"nil", "false"} => Count(hints, ActionPush) = 2
           /\ opts.ReferrersAPI = "true" => Count(hints, ActionPush) = 1

C10_Witness ==
    /\ Called("WithScopeHint")
    /\ opts.ReferrersAPI = "nil"
    /\ Count(hints, ActionPush) = 2
    /\ Count(ctx.actions, ActionPush) = 1

\* A store call that failed
StoreFailures == {i \in CallsOf("Resolve") \cup CallsOf("Delete") : ~calls[i].ok}
\* The not-found of Resolve that force turns into "Missing <ref>"
ForceIgnored(i) ==
    /\ calls[i].op = "Resolve"
    /\ IsNotFound(calls[i].err)
    /\ opts.Force /\ ~opts.OutputDescriptor
DeleteSucceeded == \E i \in CallsOf("Delete") : calls[i].ok /\ calls[i].err = Nil

\* C15, as stated: every store failure (a Resolve failure other than the
\* force-ignored not-found, or a Delete failure) makes the invocation return
\* an error that carries the user's target reference.
C15_StoreFailuresCarryReference ==
    \A i \in StoreFailures :
       ~ForceIgnored(i)
          => /\ pc = "done"
             /\ ret # Nil
             /\ HasWords(ret.msg, <<args[1]>>)

\* C15, amended: the error returned for a not-found Resolve that is not
\* force-ignored, and the error returned for a Delete failure, carry the
\* user's target reference (the Delete error wraps its cause); a Resolve
\* failure other than not-found is returned as it is, without the reference;
\* no store failure is swallowed.
C15_ReferenceOnNotFoundAndDelete ==
    \A i \in StoreFailures :
       ~ForceIgnored(i)
          => /\ pc = "done"
             /\ ret # Nil
             /\ (calls[i].op = "Resolve" /\ IsNotFound(calls[i].err))
                   => HasWords(ret.msg, <<args[1]>>)
             /\ (calls[i].op = "Resolve" /\ ~IsNotFound(calls[i].err))
                   => ret = calls[i].err
             /\ calls[i].op = "Delete"
                   => /\ ret.msg = <<"failed", "to", "delete", args[1], ":">>
                                      \o calls[i].err.msg
                      /\ ret.kind = calls[i].err.kind

C15_Witness ==
    /\ pc = "done"
    /\ \E i \in CallsOf("Delete") : calls[i].err = ErrUnauthorized
    /\ ret.kind = "ErrUnauthorized"
    /\ HasWords(ret.msg, <<args[1]>>)

\* C16: when Resolve fails with an error other than not-found, the
\* invocation returns that very error, whatever the flags, without asking
\* for confirmation, without calling Delete and without printing anything.
C16_OtherResolveErrorsVerbatim ==
    \A i \in CallsOf("Resolve") :
       (~calls[i].ok /\ ~IsNotFound(calls[i].err))
          => /\ pc = "done"
             /\ ret = calls[i].err
             /\ ~Called("AskForConfirmation")
             /\ ~Called("Delete")
             /\ stdout = <<>>
             /\ store = store0

C16_Witness ==
    /\ opts.Force /\ opts.OutputDescriptor
    /\ \E i \in CallsOf("Resolve") : calls[i].err = ErrUnauthorized
    /\ ret = ErrUnauthorized

\* What Marshal gives for d when it succeeds
Marshaled(d) == (CHOOSE m \in Marshal(d) : m.err = Nil).bytes

\* C17, as stated: once an invocation whose Delete succeeded is over, it has
\* emitted exactly one report, the marshaled descriptor if descriptor output
\* was requested and the "Deleted <ref>" line otherwise; and an invocation
\* never emits more than one of "Missing", "Deleted" and a descriptor.
C17_ExactlyOneReport ==
    /\ Len(stdout) <= 1
    /\ (DeleteSucceeded /\ pc = "done")
          => /\ Len(stdout) = 1
             /\ IF opts.OutputDescriptor
                THEN stdout[1] = Marshaled(desc)
                ELSE stdout[1] = <<"Deleted", args[1]>>

\* C17, amended: an invocation never emits more than one of "Missing",
\* "Deleted" and a descriptor. After a successful Delete, an invocation that
\* returns nil has emitted exactly one report: with descriptor output, the
\* marshaled descriptor that Resolve returned (the manifest that was in the
\* registry before the deletion) and no "Deleted" line; otherwise the line
\* "Deleted <ref>". After a successful Delete the invocation returns an
\* error only with descriptor output, when Marshal or Output failed, and
\* then no "Deleted" line is printed either.
C17_OneReportUnlessMarshalOrOutputFails ==
    /\ Len(stdout) <= 1
    /\ (DeleteSucceeded /\ pc = "done" /\ ret = Nil)
          => /\ Len(stdout) = 1
             /\ IF opts.OutputDescriptor
                THEN /\ stdout[1] = Marshaled(desc)
                     /\ \E d \in store0 \ store : desc = Manifest(d)
                ELSE stdout[1] = <<"Deleted", args[1]>>
    /\ (DeleteSucceeded /\ pc = "done" /\ ret # Nil)
          => /\ opts.OutputDescriptor
             /\ ret \in {ErrMarshal, ErrWrite}
    /\ (DeleteSucceeded /\ opts.OutputDescriptor) => ~Printed("Deleted")
    /\ (DeleteSucceeded /\ ~opts.OutputDescriptor) => ~Printed("{")

C17_Witness ==
    /\ DeleteSucceeded
    /\ opts.OutputDescriptor
    /\ ret = Nil
    /\ Printed("{")

\* C18: the documented example, `oras manifest delete --descriptor
\* localhost:5000/hello:v1` on a registry that holds the manifest, runs the
\* workflow: when the invocation is over (and the options parsed) Resolve
\* has been called, and if no step failed or was declined the manifest is
\* deleted and its descriptor printed.
C18_DocumentedExampleRuns ==
    ( /\ args = <<"localhost:5000/hello:v1">>
      /\ opts.OutputDescriptor /\ ~opts.Force
      /\ DigestA \in store0
      /\ pc = "done"
      /\ ret # ErrOptions )
        => /\ Called("Resolve")
           /\ ret = Nil /\ (\E i \in CallsOf("AskForConfirmation") : calls[i].ok)
                 => /\ DigestA \notin store
                    /\ Printed("{")

C20_ErrorMeansNotDeleted ==
    (pc = "done" /\ ret # Nil)
        => IF DeleteSucceeded
           THEN /\ opts.OutputDescriptor
                /\ ret \in {ErrMarshal, ErrWrite}
                /\ desc.Digest \in store0
                /\ store = store0 \ {desc.Digest}
           ELSE store = store0

C20_Witness ==
    /\ pc = "done"
    /\ ret = ErrWrite
    /\ DeleteSucceeded
    /\ store # store0

----------------------------------------------------------------------------
(* Properties of ValidateNameAsPath *)

\* The places of name at which a path element starts: the place before the
\* name and the slashes, but for the end of the name
ElementStarts(name) == {0} \cup {i \in DOMAIN name : name[i] = "/"}
\* The path element that starts after place p
ElementAfter(name, p) ==
    LET stops == {i \in DOMAIN name : i > p /\ name[i] = "/"} \cup {Len(name) + 1}
        q == CHOOSE i \in stops : \A j \in stops : i <= j
    IN  SubSeq(name, p + 1, q - 1)

\* A name that cleaning leaves alone: "." or "/", or else elements separated
\* by single slashes, after an optional leading slash, none of them empty or
\* ".", and ".." only in front of a name without leading slash
CleanName(name) ==
    \/ name = <<".">>
    \/ name = <<"/">>
    \/ /\ name # <<>>
       /\ LET rooted == name[1] = "/"
              starts == IF rooted THEN ElementStarts(name) \ {0} ELSE ElementStarts(name)
          IN  \A p \in starts :
                 LET e == ElementAfter(name, p)
                 IN  /\ e # <<>>
                     /\ e # <<".">>
                     /\ e = <<".", ".">>
                          => /\ ~rooted
                             /\ \A p2 \in starts :
                                  p2 < p => ElementAfter(name, p2) = <<".", ".">>

Letters == {"a", "b", "c", "C"}
AbsoluteName(name) ==
    \/ name[1] = "/"
    \/ Len(name) >= 3 /\ name[1] \in Letters /\ name[2] = ":" /\ name[3] = "/"
TraversalName(name) ==
    \/ name = <<".", ".">>
    \/ Len(name) >= 3 /\ SubSeq(name, 1, 3) = <<".", ".", "/">>

\* The kind of the first rule that name breaks, "nil" when it breaks none
FirstFailingRule(named, name) ==
    IF ~named \/ name = <<>> THEN "ErrNoName"
    ELSE IF ~CleanName(name) THEN "ErrDirtyPath"
    ELSE IF \E i \in DOMAIN name : name[i] = "\\" THEN "ErrPathNotSlashSeparated"
    ELSE IF AbsoluteName(name) THEN "ErrAbsolutePathDisallowed"
    ELSE IF TraversalName(name) THEN "ErrPathTraversalDisallowed"
    ELSE "nil"

Validated(name) == vpc = "returned" /\ vdesc = NamedDesc(name)

\* C11: ValidateNameAsPath returns the error of the first failing rule in the
\* order no name, dirty path, backslash, absolute path, traversal, and nil
\* exactly when no rule fails; it rejects the empty name, a/./b, a\b, /a/b,
\* C:/a/b, .. and ../a with the respective errors and accepts a/b/c.
C11_FirstFailingRule ==
    vpc = "returned"
        => /\ LET named == AnnotationTitle \in DOMAIN vdesc.Annotations
                  name == IF named THEN vdesc.Annotations[AnnotationTitle] ELSE <<>>
              IN  /\ verr.kind = FirstFailingRule(named, name)
                  /\ verr = Nil <=> FirstFailingRule(named, name) = "nil"
                  /\ verr.kind \notin {"nil", "ErrNoName"} => verr.msg = name
           /\ Validated(<<>>) => verr = ErrNoName
           /\ Validated(<<"a", "/", ".", "/", "b">>) => verr.kind = "ErrDirtyPath"
           /\ Validated(<<"a", "\\", "b">>) => verr.kind = "ErrPathNotSlashSeparated"
           /\ Validated(<<"/", "a", "/", "b">>) => verr.kind = "ErrAbsolutePathDisallowed"
           /\ Validated(<<"C", ":", "/", "a", "/", "b">>)
                 => verr.kind = "ErrAbsolutePathDisallowed"
           /\ Validated(<<".", ".">>) => verr.kind = "ErrPathTraversalDisallowed"
           /\ Validated(<<".", ".", "/", "a">>) => verr.kind = "ErrPathTraversalDisallowed"
           /\ Validated(<<"a", "/", "b", "/", "c">>) => verr = Nil

C11_Witness ==
    /\ Validated(<<".", ".">>)
    /\ verr.kind = "ErrPathTraversalDisallowed"

----------------------------------------------------------------------------
(* Properties of the status tracker *)

Resolvable(w) == AnnotationTitle \in DOMAIN tdesc[w].Annotations
\* The line that an invocation with a resolvable name is to give
ExpectedLine(w) ==
    << <<"Uploading">>,
       [i \in 1..ShortDigestLen |-> tdesc[w].Digest[7 + i]],
       <<tdesc[w].Annotations[AnnotationTitle]>>,
       <<"\n">> >>
Pieces == Len(<< "Uploading", "digest", "name", "\n" >>)
CompleteLines == Len(sink) \div Pieces
SinkLine(k) == SubSeq(sink, Pieces * (k - 1) + 1, Pieces * k)
SinkRest == SubSeq(sink, Pieces * CompleteLines + 1, Len(sink))
Written(w) == At(w, "unlock") \/ (At(w, "returned") /\ Resolvable(w))

\* C12: with one handler called by concurrent workers, the sink holds
\* complete lines "Uploading <first 12 hex of the digest> <name>" only, one
\* for each invocation with a resolvable name that has written and none for
\* the others, followed at most by the beginning of the line of the one
\* worker that holds the lock; at most one worker is writing; and every
\* invocation that returned gave no dependents and no error.
C12_CompleteLines ==
    /\ \A k \in 1..CompleteLines :
         \E w \in Workers : Resolvable(w) /\ SinkLine(k) = ExpectedLine(w)
    /\ \A w \in Workers :
         Resolvable(w) =>
            Cardinality({k \in 1..CompleteLines : SinkLine(k) = ExpectedLine(w)})
               = Cardinality({v \in Workers :
                                /\ Written(v)
                                /\ ExpectedLine(v) = ExpectedLine(w)})
    /\ CompleteLines = Cardinality({w \in Workers : Written(w)})
    /\ SinkRest # <<>> =>
         /\ printLock \in Workers
         /\ At(printLock, "write")
         /\ SinkRest = SubSeq(ExpectedLine(printLock), 1, Len(SinkRest))
    /\ Cardinality({w \in Workers : At(w, "write") \/ At(w, "unlock")}) <= 1
    /\ \A w \in Workers :
         /\ (At(w, "write") \/ At(w, "unlock")) => printLock = w
         /\ At(w, "returned") <=> tret[w].returned
         /\ tret[w].returned => tret[w].dependents = <<>> /\ tret[w].err = Nil

C12_Witness ==
    /\ \A w \in Workers : At(w, "returned")
    /\ CompleteLines >= 2
    /\ SinkLine(1) # SinkLine(2)

----------------------------------------------------------------------------
(* Properties of the push options *)

\* The handlers that an applied option adds
HandlersAdded(opt) ==
    IF opt.opt = "WithPushBaseHandler" THEN opt.arg
    ELSE IF opt.opt = "WithPushStatusTrack"
    THEN <<[type |-> "pushStatusTrack", of |-> opt.arg]>>
    ELSE <<>>

RECURSIVE HandlersOf(_)
HandlersOf(opts_) ==
    IF opts_ = <<>> THEN <<>>
    ELSE HandlersOf(SubSeq(opts_, 1, Len(opts_) - 1)) \o HandlersAdded(opts_[Len(opts_)])

\* C13: after any sequence of options applied to the defaults, the base
\* handlers are the handlers of the WithPushBaseHandler calls and the one
\* tracker of each WithPushStatusTrack call, concatenated in the order of
\* application; no other option changes the list.
C13_BaseHandlersConcatenate ==
    po.baseHandlers = HandlersOf(applied)

C13_Witness ==
    /\ Len(applied) = 3
    /\ applied[1].opt = "WithPushBaseHandler" /\ Len(applied[1].arg) = 2
    /\ applied[2].opt = "WithManifest"
    /\ applied[3].opt = "WithPushStatusTrack"
    /\ Len(po.baseHandlers) = 3
    /\ po.baseHandlers[3].type = "pushStatusTrack"

\* The last applied option named name, 0 when there is none
LastOf(name) ==
    LET is == {i \in DOMAIN applied : applied[i].opt = name}
    IN  IF is = {} THEN 0 ELSE CHOOSE i \in is : \A j \in is : j <= i

\* The value of a field: the default, or what the last option named name gave
Holds(value, name, default, given(_)) ==
    IF LastOf(name) = 0 THEN value = default ELSE value = given(applied[LastOf(name)].arg)

Same(x) == x
Pointer(x) == <<x>>
ArtifactOf(x) ==
    << [ArtifactType |-> x.artifactType,
        Subject |-> [MediaType |-> x.manifest.MediaType, Digest |-> x.manifest.Digest,
                     Size |-> x.manifest.Size,
                     Annotations |-> x.manifest.Annotations]] >>

\* C14: the defaults have the path validator as validateName and every
\* other field empty; after any sequence of options each overridable field
\* holds what the last option for it gave (nil validateName after
\* WithNameValidation(nil)) or its default, so that an option changes no
\* field but its own; and the option returned no error.
C14_LastOptionWins ==
    /\ applied = <<>> =>
         /\ po.validateName = "ValidateNameAsPath"
         /\ po.config = <<>> /\ po.manifest = <<>> /\ po.artifact = <<>>
         /\ po.configMediaType = ""
         /\ po.configAnnotations = "nil" /\ po.manifestAnnotations = "nil"
         /\ po.manifestWriter = "nil"
         /\ po.baseHandlers = <<>>
    /\ Holds(po.config, "WithConfig", <<>>, Pointer)
    /\ Holds(po.configMediaType, "WithConfigMediaType", "", Same)
    /\ Holds(po.configAnnotations, "WithConfigAnnotations", "nil", Same)
    /\ Holds(po.manifest, "WithManifest", <<>>, Pointer)
    /\ Holds(po.manifestAnnotations, "WithManifestAnnotations", "nil", Same)
    /\ Holds(po.manifestWriter, "WithManifestWriter", "nil", Same)
    /\ Holds(po.validateName, "WithNameValidation", "ValidateNameAsPath", Same)
    /\ Holds(po.artifact, "AsArtifact", <<>>, ArtifactOf)
    /\ LastOf("WithPushBaseHandler") = 0 /\ LastOf("WithPushStatusTrack") = 0
         => po.baseHandlers = <<>>
    /\ operr = Nil

C14_Witness ==
    /\ Len(applied) = 3
    /\ applied[1].opt = "WithNameValidation" /\ applied[1].arg = "custom"
    /\ applied[2].opt = "AsArtifact"
    /\ applied[3].opt = "WithNameValidation" /\ applied[3].arg = "nil"
    /\ po.validateName = "nil"
    /\ po.artifact # <<>>

====
